---- MODULE Spec2Model ----
(***************************************************************************)
(* The tag integration (homeassistant/components/tag/__init__.py): a       *)
(* persisted collection of tag records, its create/update/delete           *)
(* operations and the scan handler async_scan_tag.                         *)
(*                                                                         *)
(* A Python dict is a function from the set of its keys to its values.     *)
(* A Python value is a record [k, s, t]: k is the type ("none", "str",     *)
(* "datetime", "int"), s the text of a string, t the instant of a          *)
(* datetime.  The text produced by datetime.isoformat() for the instant n  *)
(* is the string value with s = "iso" and t = n.                           *)
(***************************************************************************)
EXTENDS Integers, Sequences, FiniteSets, TLC

\* ---- bounds of the model ----
MaxScans == 2
MaxOps == 1
MaxUuid == 2
MaxListeners == 2

\* ---- values ----
NoneV == [k |-> "none", s |-> "", t |-> 0]
Str(x) == [k |-> "str", s |-> x, t |-> 0]
Dt(n) == [k |-> "datetime", s |-> "", t |-> n]
IsoStr(n) == [k |-> "str", s |-> "iso", t |-> n]
Num == [k |-> "int", s |-> "", t |-> 7]

EmptyDict == [f \in {} |-> NoneV]

\* dict.get(key): the value, or None when the key is absent
Get(d, f) == IF f \in DOMAIN d THEN d[f] ELSE NoneV

\* {**a, **b}: the keys of both, b's values win
Merge(a, b) == [f \in (DOMAIN a) \cup (DOMAIN b) |-> IF f \in DOMAIN b THEN b[f] ELSE a[f]]

\* ---- field names ----
TAG_ID == "tag_id"
CONF_NAME == "name"
DESCRIPTION == "description"
LAST_SCANNED == "last_scanned"
DEVICE_ID == "device_id"

\* ---- validators ----
\* cv.string: a string passes, None and other types are rejected
cv_string(v) == v.k = "str"

\* vol.All(str, vol.Length(min=1)): a string of at least one character
name_validator(v) == v.k = "str" /\ v.s # ""

\* cv.datetime accepts a datetime, or a string that parses as one
cv_datetime_ok(v) == v.k = "datetime" \/ (v.k = "str" /\ v.s = "iso")

\* cv.datetime returns the datetime (a string is parsed)
cv_datetime(v) == Dt(v.t)

\* datetime.isoformat()
isoformat(v) == IsoStr(v.t)

CREATE_FIELDS == {TAG_ID, CONF_NAME, DESCRIPTION, LAST_SCANNED, DEVICE_ID}

\* the update fields with the id among them
UPDATE_FIELDS_with_id == CREATE_FIELDS

UPDATE_FIELDS == {CONF_NAME, DESCRIPTION, LAST_SCANNED, DEVICE_ID}

FieldOk(f, v) ==
    CASE f = TAG_ID -> cv_string(v)
      [] f = CONF_NAME -> name_validator(v)
      [] f = DESCRIPTION -> cv_string(v)
      [] f = LAST_SCANNED -> cv_datetime_ok(v)
      [] f = DEVICE_ID -> cv_string(v)
      [] OTHER -> FALSE

\* a schema that lets unknown keys through (extra=ALLOW_EXTRA)
SchemaValid_allow_extra(fields, d) ==
    \A f \in (DOMAIN d) \cap fields : FieldOk(f, d[f])

\* vol.Schema(fields)(data) raises vol.Invalid on an extra key or a bad value
SchemaValid(fields, d) ==
    /\ DOMAIN d \subseteq fields
    /\ \A f \in DOMAIN d : FieldOk(f, d[f])

\* ... and otherwise returns the dict with each value as its validator returns it
SchemaOut(d) == [f \in DOMAIN d |-> IF f = LAST_SCANNED THEN cv_datetime(d[f]) ELSE d[f]]

CREATE_SCHEMA_valid(d) == SchemaValid(CREATE_FIELDS, d)
UPDATE_SCHEMA_valid(d) == SchemaValid(UPDATE_FIELDS, d)

\* ---- uuid ----
UuidName == <<"u1", "u2", "u3", "u4">>

\* str(uuid.uuid4()): a string no earlier call returned
uuid4(n) == Str(UuidName[n + 1])

\* ---- the collection: a dict from item id to record ----
Put(m, key, v) == [x \in (DOMAIN m) \cup {key} |-> IF x = key THEN v ELSE m[x]]
Pop(m, key) == [x \in (DOMAIN m) \ {key} |-> m[x]]

\* _process_create_data with the test of the id inverted: a given id is replaced
process_create_data_replaces_id(d, u) ==
    IF ~CREATE_SCHEMA_valid(d) THEN [err |-> "Invalid", data |-> EmptyDict]
    ELSE LET v == SchemaOut(d) IN
         IF TAG_ID \notin DOMAIN v THEN [err |-> "KeyError", data |-> EmptyDict]
         ELSE LET w == IF v[TAG_ID].s # "" THEN [v EXCEPT ![TAG_ID] = u] ELSE v
                  x == IF LAST_SCANNED \in DOMAIN w
                       THEN [w EXCEPT ![LAST_SCANNED] = isoformat(w[LAST_SCANNED])]
                       ELSE w
              IN [err |-> "", data |-> x]

\* _process_create_data that leaves last_scanned as the datetime the schema returns
process_create_data_keeps_datetime(d, u) ==
    IF ~CREATE_SCHEMA_valid(d) THEN [err |-> "Invalid", data |-> EmptyDict]
    ELSE LET v == SchemaOut(d) IN
         IF TAG_ID \notin DOMAIN v THEN [err |-> "KeyError", data |-> EmptyDict]
         ELSE LET w == IF v[TAG_ID].s = "" THEN [v EXCEPT ![TAG_ID] = u] ELSE v
              IN [err |-> "", data |-> w]

\* TagStorageCollection._process_create_data(data), u being what uuid4 would return
_process_create_data(d, u) ==
    IF ~CREATE_SCHEMA_valid(d) THEN [err |-> "Invalid", data |-> EmptyDict]
    ELSE LET v == SchemaOut(d) IN
         IF TAG_ID \notin DOMAIN v THEN [err |-> "KeyError", data |-> EmptyDict]
         ELSE LET w == IF v[TAG_ID].s = "" THEN [v EXCEPT ![TAG_ID] = u] ELSE v
                  x == IF LAST_SCANNED \in DOMAIN w
                       THEN [w EXCEPT ![LAST_SCANNED] = isoformat(w[LAST_SCANNED])]
                       ELSE w
              IN [err |-> "", data |-> x]

\* whether _process_create_data(d) calls uuid.uuid4()
CallsUuid(d) == CREATE_SCHEMA_valid(d) /\ TAG_ID \in DOMAIN d /\ d[TAG_ID].s = ""

\* TagStorageCollection._get_suggested_id(info)
_get_suggested_id(info) == info[TAG_ID].s

\* IDManager.has_id(item_id)
has_id(coll, item_id) == item_id \in DOMAIN coll

\* generate_id without the test: the suggestion is returned whatever the collection holds
generate_id_no_check(coll, suggestion) == [err |-> "", id |-> suggestion]

\* generate_id that answers a taken id with another one, as a slug id manager would
generate_id_renames(coll, suggestion) ==
    IF has_id(coll, suggestion) THEN [err |-> "", id |-> "t0_2"] ELSE [err |-> "", id |-> suggestion]

\* TagIDManager.generate_id(suggestion)
generate_id(coll, suggestion) ==
    IF has_id(coll, suggestion)
    THEN [err |-> "TagIDExistsError", id |-> suggestion]
    ELSE [err |-> "", id |-> suggestion]

\* _update_data with the merge the wrong way round: the item's fields win
update_data_item_wins(item, update_data) ==
    IF ~UPDATE_SCHEMA_valid(update_data) THEN [err |-> "Invalid", data |-> EmptyDict]
    ELSE LET merged == Merge(SchemaOut(update_data), item)
             x == IF LAST_SCANNED \in DOMAIN update_data
                  THEN [merged EXCEPT ![LAST_SCANNED] = isoformat(merged[LAST_SCANNED])]
                  ELSE merged
         IN [err |-> "", data |-> x]

\* _update_data that returns the patch in place of the item
update_data_replaces(item, update_data) ==
    IF ~UPDATE_SCHEMA_valid(update_data) THEN [err |-> "Invalid", data |-> EmptyDict]
    ELSE LET merged == SchemaOut(update_data)
             x == IF LAST_SCANNED \in DOMAIN update_data
                  THEN [merged EXCEPT ![LAST_SCANNED] = isoformat(merged[LAST_SCANNED])]
                  ELSE merged
         IN [err |-> "", data |-> x]

\* _update_data without the isoformat step
update_data_keeps_datetime(item, update_data) ==
    IF ~UPDATE_SCHEMA_valid(update_data) THEN [err |-> "Invalid", data |-> EmptyDict]
    ELSE [err |-> "", data |-> Merge(item, SchemaOut(update_data))]

\* TagStorageCollection._update_data(item, update_data)
_update_data(item, update_data) ==
    IF ~UPDATE_SCHEMA_valid(update_data) THEN [err |-> "Invalid", data |-> EmptyDict]
    ELSE LET merged == Merge(item, SchemaOut(update_data))
             x == IF LAST_SCANNED \in DOMAIN update_data
                  THEN [merged EXCEPT ![LAST_SCANNED] = isoformat(merged[LAST_SCANNED])]
                  ELSE merged
         IN [err |-> "", data |-> x]

\* ---- the collection's operations (StorageCollection, of homeassistant.helpers.collection,
\* as section 4.2 of the specification describes it: validate, assign the id, change
\* the mapping, write the whole mapping to storage, all or nothing); each returns its outcome:
\* result ("ok" or the error raised), err_id (the id an error carries), ret (the
\* record returned), data and stored (the mapping in memory and in storage after) ----
Outcome(result, err_id, ret, coll, stored) ==
    [result |-> result, err_id |-> err_id, ret |-> ret, data |-> coll, stored |-> stored]

\* async_create_item that returns before the mapping is written
async_create_item_no_write(coll, stored, d, u, write_ok) ==
    LET p == _process_create_data(d, u) IN
    IF p.err # "" THEN Outcome(p.err, "", EmptyDict, coll, stored)
    ELSE LET g == generate_id(coll, _get_suggested_id(p.data)) IN
         IF g.err # "" THEN Outcome(g.err, g.id, EmptyDict, coll, stored)
         ELSE Outcome("ok", "", p.data, Put(coll, g.id, p.data), stored)

\* StorageCollection.async_create_item(data); write_ok: the storage write succeeds
async_create_item(coll, stored, d, u, write_ok) ==
    LET p == _process_create_data(d, u) IN
    IF p.err # "" THEN Outcome(p.err, "", EmptyDict, coll, stored)
    ELSE LET g == generate_id(coll, _get_suggested_id(p.data)) IN
         IF g.err # "" THEN Outcome(g.err, g.id, EmptyDict, coll, stored)
         ELSE IF ~write_ok THEN Outcome("StorageError", "", EmptyDict, coll, stored)
         ELSE LET new == Put(coll, g.id, p.data) IN Outcome("ok", "", p.data, new, new)

\* async_update_item that creates the record when the id is absent
async_update_item_upsert(coll, stored, item_id, updates, write_ok) ==
    LET item == IF item_id \in DOMAIN coll THEN coll[item_id] ELSE [tag_id |-> Str(item_id)]
        p == _update_data(item, updates)
    IN IF p.err # "" THEN Outcome(p.err, "", EmptyDict, coll, stored)
       ELSE IF ~write_ok THEN Outcome("StorageError", "", EmptyDict, coll, stored)
       ELSE LET new == Put(coll, item_id, p.data) IN Outcome("ok", "", p.data, new, new)

\* StorageCollection.async_update_item(item_id, updates)
async_update_item(coll, stored, item_id, updates, write_ok) ==
    IF item_id \notin DOMAIN coll THEN Outcome("ItemNotFound", item_id, EmptyDict, coll, stored)
    ELSE LET p == _update_data(coll[item_id], updates) IN
         IF p.err # "" THEN Outcome(p.err, "", EmptyDict, coll, stored)
         ELSE IF ~write_ok THEN Outcome("StorageError", "", EmptyDict, coll, stored)
         ELSE LET new == Put(coll, item_id, p.data) IN Outcome("ok", "", p.data, new, new)

\* StorageCollection.async_delete_item(item_id)
async_delete_item(coll, stored, item_id, write_ok) ==
    IF item_id \notin DOMAIN coll THEN Outcome("ItemNotFound", item_id, EmptyDict, coll, stored)
    ELSE IF ~write_ok THEN Outcome("StorageError", "", EmptyDict, coll, stored)
    ELSE LET new == Pop(coll, item_id) IN Outcome("ok", "", EmptyDict, new, new)

\* ---- the inputs the model draws from ----
TagIds == {"", "t0", "t1"}
Devices == {NoneV, Str("D2")}
ItemIds == {"t0", "t1"}

FrontDoor ==
    [tag_id |-> Str("t0"), name |-> Str("Front Door"), description |-> Str("d"),
     last_scanned |-> IsoStr(0), device_id |-> Str("D1")]

\* what storage can hold when the system starts: nothing, or what an earlier run wrote
InitialStores == {EmptyDict, [x \in {"t0"} |-> FrontDoor]}

CreateInputs ==
    {[tag_id |-> Str(t)] : t \in TagIds}
    \cup {[name |-> Str("Hall")],
          [tag_id |-> Str("t1"), name |-> Str("Hall"), last_scanned |-> IsoStr(0)],
          [tag_id |-> Str("t1"), name |-> Str("")],
          [tag_id |-> Str("t0"), device_id |-> NoneV],
          [tag_id |-> Str("t1"), bogus |-> Str("x")]}

UpdateInputs ==
    {[name |-> Str("Hall")],
     [last_scanned |-> Dt(0), device_id |-> Str("D2")],
     [tag_id |-> Str("t1")],
     [last_scanned |-> Num]}

\* ---- state ----
VARIABLES
    initialised,  \* DOMAIN in hass.config.components
    data,         \* storage_collection.data
    persisted,    \* what the Store holds
    events,       \* the "tag scanned" events fired on the bus, in order
    scans,        \* the calls of async_scan_tag, in order of call; the index is the context
    now,          \* what dt_util.utcnow() returns next
    nuuid,        \* how many uuids uuid4 has returned
    nops,         \* how many collection commands were called
    last,         \* the last call: its input, its outcome and the state it started from
    changes,      \* the change events the collection has fired, in order
    listeners,    \* the subscribed listeners, in subscription order
    pending,      \* the listeners the event being delivered has still to reach
    deliveries,   \* the listener calls made, in order
    subs_at       \* per listener, how many change events had fired when it subscribed

vars == <<initialised, data, persisted, events, scans, now, nuuid, nops, last,
          changes, listeners, pending, deliveries, subs_at>>

notifier == <<listeners, deliveries, subs_at>>

Call(op, ctx, id, input, o) ==
    [op |-> op, ctx |-> ctx, id |-> id, input |-> input,
     result |-> o.result, err_id |-> o.err_id, ret |-> o.ret,
     pre_data |-> data, pre_stored |-> persisted, pre_nevents |-> Len(events),
     pre_nchanges |-> Len(changes)]

NoOutcome == Outcome("", "", EmptyDict, EmptyDict, EmptyDict)

Init ==
    /\ initialised = FALSE
    /\ data = EmptyDict
    /\ persisted \in InitialStores
    /\ events = <<>>
    /\ scans = <<>>
    /\ now = 1
    /\ nuuid = 0
    /\ nops = 0
    /\ last = [op |-> "none", ctx |-> 0, id |-> "", input |-> EmptyDict,
               result |-> "", err_id |-> "", ret |-> EmptyDict,
               pre_data |-> EmptyDict, pre_stored |-> EmptyDict, pre_nevents |-> 0,
               pre_nchanges |-> 0]
    /\ changes = <<>>
    /\ listeners = <<>>
    /\ pending = <<>>
    /\ deliveries = <<>>
    /\ subs_at = <<>>

\* ---- the change notifier (section 4.3 of the specification) ----
\* a change event: its kind ("added", "updated", "removed"), the record it is about, the
\* record before (for "updated"), and the listeners subscribed when it fired
ChangeEvent(kind, item_id, item, old, subs) ==
    [kind |-> kind, id |-> item_id, item |-> item, old |-> old, to |-> subs]

\* the collection fires a change event when a create, update or delete has succeeded:
\* the event is logged and is to be delivered to the listeners subscribed now
notify_changes(o, kind, item_id, item, old) ==
    IF o.result = "ok"
    THEN /\ changes' = Append(changes, ChangeEvent(kind, item_id, item, old, listeners))
         /\ pending' = listeners
    ELSE UNCHANGED <<changes, pending>>

\* what the store's JSON document holds for a value: a string or None as it is; a
\* datetime has no JSON form (line 80: last_scanned is made "JSON serializeable")
to_json(v) == IF v.k \in {"str", "none"} THEN v ELSE [k |-> "unserialisable", s |-> "", t |-> 0]

\* Store.async_save(mapping): the document written for the mapping
save(mapping) ==
    [id \in DOMAIN mapping |-> [f \in DOMAIN mapping[id] |-> to_json(mapping[id][f])]]

\* Store.async_load(): the mapping in storage, empty when there is none
async_load(stored) == stored

\* async_setup: the collection is loaded, then the component counts as set up
Setup ==
    /\ ~initialised
    /\ last' = Call("setup", 0, "", EmptyDict, Outcome("ok", "", EmptyDict, data, persisted))
    /\ data' = async_load(persisted)
    /\ initialised' = TRUE
    /\ UNCHANGED <<persisted, events, scans, now, nuuid, nops, changes, pending, notifier>>

\* an update argument that carries a name as well
ScanUpdateData_with_name(t, dev) ==
    [last_scanned |-> Dt(t), device_id |-> dev, name |-> Str("scanned")]

\* the arguments async_scan_tag passes to async_update_item and async_create_item
ScanUpdateData(t, dev) == [last_scanned |-> Dt(t), device_id |-> dev]
ScanCreateData(tag, t, dev) == [tag_id |-> Str(tag), last_scanned |-> Dt(t), device_id |-> dev]

\* the name taken from the wrong field of the record
ScanName_reads_id(coll, tag) ==
    IF tag \in DOMAIN coll /\ coll[tag] # EmptyDict THEN Get(coll[tag], TAG_ID) ELSE NoneV

\* the name async_scan_tag puts in the event
ScanName(coll, tag) ==
    IF tag \in DOMAIN coll /\ coll[tag] # EmptyDict THEN Get(coll[tag], CONF_NAME) ELSE NoneV

\* the test of the collection left out: every scan creates
ScanBranch_always_create(coll, tag) == "create"

\* the branch async_scan_tag takes
ScanBranch(coll, tag) == IF tag \in DOMAIN coll THEN "update" ELSE "create"

\* a call of async_scan_tag: its arguments, the time and name it read, its branch, where
\* it stands ("awaiting" or "done"), how it ended, and how many calls had been made
\* when its awaited create or update ran
ScanRecord(tag, dev, t, name, branch, stage, result, err_id) ==
    [tag_id |-> tag, device_id |-> dev, time |-> t, name |-> name, branch |-> branch,
     stage |-> stage, result |-> result, err_id |-> err_id, ncalled |-> 0]

\* the set-up check left out
NotSetUp_never(init) == FALSE

\* DOMAIN not in hass.config.components
NotSetUp(init) == ~init

\* async_fire called only for a tag that has a name
async_fire_only_named(bus, tag, name, dev, context) ==
    IF name = NoneV THEN bus
    ELSE Append(bus, [tag_id |-> Str(tag), name |-> name, device_id |-> dev, context |-> context])

\* hass.bus.async_fire(EVENT_TAG_SCANNED, payload, context=context)
async_fire(bus, tag, name, dev, context) ==
    Append(bus, [tag_id |-> Str(tag), name |-> name, device_id |-> dev, context |-> context])

\* async_scan_tag up to its await: the set-up check, the event, the choice of branch.
\* The await of async_update_item / async_create_item is where the call may be suspended
\* (sections 4.4 and 5 of the specification), so another call can run between this step
\* and ScanResume.
ScanCall(tag, dev) ==
    /\ Len(scans) < MaxScans
    /\ pending = <<>>
    /\ LET c == Len(scans) + 1 IN
       IF NotSetUp(initialised)
       THEN /\ scans' = Append(scans, ScanRecord(tag, dev, 0, NoneV, "none", "done",
                                                  "HomeAssistantError", ""))
            /\ last' = Call("scan", c, tag, EmptyDict,
                            Outcome("HomeAssistantError", "", EmptyDict, data, persisted))
            /\ UNCHANGED <<events, now>>
       ELSE /\ events' = async_fire(events, tag, ScanName(data, tag), dev, c)
            /\ scans' = Append(scans, ScanRecord(tag, dev, now, ScanName(data, tag),
                                                  ScanBranch(data, tag), "awaiting", "", ""))
            /\ last' = Call("scan", c, tag, EmptyDict, NoOutcome)
            /\ now' = now + 1
    /\ UNCHANGED <<initialised, data, persisted, nuuid, nops, changes, pending, notifier>>

\* the awaited async_update_item or async_create_item of scan c, and its return
ScanResume(c, write_ok) ==
    /\ c \in 1..Len(scans)
    /\ scans[c].stage = "awaiting"
    /\ pending = <<>>
    /\ LET sc == scans[c]
           input == IF sc.branch = "update"
                    THEN ScanUpdateData(sc.time, sc.device_id)
                    ELSE ScanCreateData(sc.tag_id, sc.time, sc.device_id)
           uses == sc.branch = "create" /\ CallsUuid(input)
           o == IF sc.branch = "update"
                THEN async_update_item(data, persisted, sc.tag_id, input, write_ok)
                ELSE async_create_item(data, persisted, input, uuid4(nuuid), write_ok)
       IN /\ uses => nuuid < MaxUuid
          /\ data' = o.data
          /\ persisted' = o.stored
          /\ nuuid' = IF uses THEN nuuid + 1 ELSE nuuid
          /\ scans' = [scans EXCEPT ![c].stage = "done", ![c].result = o.result,
                                    ![c].err_id = o.err_id, ![c].ncalled = Len(scans)]
          /\ last' = Call(sc.branch, c, sc.tag_id, input, o)
          /\ IF sc.branch = "update"
             THEN notify_changes(o, "updated", sc.tag_id, o.ret, Get(data, sc.tag_id))
             ELSE notify_changes(o, "added", Get(o.ret, TAG_ID).s, o.ret, EmptyDict)
    /\ UNCHANGED <<initialised, events, now, nops, notifier>>

\* a create command on the collection
Create(d, write_ok) ==
    /\ initialised
    /\ nops < MaxOps
    /\ pending = <<>>
    /\ CallsUuid(d) => nuuid < MaxUuid
    /\ LET o == async_create_item(data, persisted, d, uuid4(nuuid), write_ok)
       IN /\ data' = o.data
          /\ persisted' = o.stored
          /\ last' = Call("create", 0, "", d, o)
          /\ notify_changes(o, "added", Get(o.ret, TAG_ID).s, o.ret, EmptyDict)
    /\ nuuid' = IF CallsUuid(d) THEN nuuid + 1 ELSE nuuid
    /\ nops' = nops + 1
    /\ UNCHANGED <<initialised, events, scans, now, notifier>>

\* an update command on the collection
Update(item_id, patch, write_ok) ==
    /\ initialised
    /\ nops < MaxOps
    /\ pending = <<>>
    /\ LET o == async_update_item(data, persisted, item_id, patch, write_ok)
       IN /\ data' = o.data
          /\ persisted' = o.stored
          /\ last' = Call("update", 0, item_id, patch, o)
          /\ notify_changes(o, "updated", item_id, o.ret, Get(data, item_id))
    /\ nops' = nops + 1
    /\ UNCHANGED <<initialised, events, scans, now, nuuid, notifier>>

\* a delete command on the collection
Delete(item_id, write_ok) ==
    /\ initialised
    /\ nops < MaxOps
    /\ pending = <<>>
    /\ LET o == async_delete_item(data, persisted, item_id, write_ok)
       IN /\ data' = o.data
          /\ persisted' = o.stored
          /\ last' = Call("delete", 0, item_id, EmptyDict, o)
          /\ notify_changes(o, "removed", item_id, Get(data, item_id), EmptyDict)
    /\ nops' = nops + 1
    /\ UNCHANGED <<initialised, events, scans, now, nuuid, notifier>>

Next ==
    \/ Setup
    \/ \E tag \in TagIds, dev \in Devices : ScanCall(tag, dev)
    \/ \E c \in 1..MaxScans, w \in BOOLEAN : ScanResume(c, w)
    \/ \E d \in CreateInputs, w \in BOOLEAN : Create(d, w)
    \/ \E i \in ItemIds, patch \in UpdateInputs, w \in BOOLEAN : Update(i, patch, w)
    \/ \E i \in ItemIds, w \in BOOLEAN : Delete(i, w)

Spec == Init /\ [][Next]_vars

\* ---- the change notifier's operations ----
collection == <<initialised, data, persisted, events, scans, now, nuuid, nops, last, changes>>

\* what a new listener is handed of the events fired before it subscribed: all of them
Replay_past(chs) == [i \in 1..Len(chs) |-> i]

\* what a new listener is handed of the events fired before it subscribed: nothing
\* (no buffering)
Replay(chs) == <<>>

\* subscribe(listener): the listener goes to the end of the list
Subscribe ==
    /\ initialised
    /\ Len(subs_at) < MaxListeners
    /\ LET l == Len(subs_at) + 1
           past == Replay(changes)
       IN /\ listeners' = Append(listeners, l)
          /\ subs_at' = Append(subs_at, Len(changes))
          /\ deliveries' = deliveries \o
                 [i \in 1..Len(past) |-> [listener |-> l, event |-> past[i], live |-> listeners]]
    /\ UNCHANGED <<collection, pending>>

\* the listener is removed; a listener's callback may do this for itself or for another
\* listener, so it can happen while an event is being delivered
Unsubscribe(l) ==
    /\ \E i \in 1..Len(listeners) : listeners[i] = l
    /\ listeners' = SelectSeq(listeners, LAMBDA x : x # l)
    /\ UNCHANGED <<collection, pending, deliveries, subs_at>>

\* delivery that asks the list of listeners as it is now
Recipients_live(pend, subs) ==
    SelectSeq(pend, LAMBDA x : \E i \in 1..Len(subs) : subs[i] = x)

\* the listeners the event being delivered has still to reach: those left of the
\* snapshot taken when it fired, whatever the list of listeners is now
Recipients(pend, subs) == pend

\* the next listener of the snapshot is called with the event
Deliver ==
    /\ pending # <<>>
    /\ LET r == Recipients(pending, listeners)
       IN IF r = <<>>
          THEN /\ pending' = <<>>
               /\ UNCHANGED deliveries
          ELSE /\ pending' = Tail(r)
               /\ deliveries' = Append(deliveries,
                      [listener |-> Head(r), event |-> Len(changes), live |-> listeners])
    /\ UNCHANGED <<collection, listeners, subs_at>>

NextNotify ==
    \/ Setup
    \/ \E tag \in TagIds, dev \in Devices : ScanCall(tag, dev)
    \/ \E c \in 1..MaxScans, w \in BOOLEAN : ScanResume(c, w)
    \/ \E i \in ItemIds, w \in BOOLEAN : Delete(i, w)
    \/ Subscribe
    \/ \E l \in 1..MaxListeners : Unsubscribe(l)
    \/ Deliver

SpecNotify == Init /\ [][NextNotify]_vars

\* ---- the claims ----

\* the events fired with context c
ScanEvents(c) == {i \in 1..Len(events) : events[i].context = c}

\* scan c fired exactly one event, with this payload
FiredOnce(c, tag, name, dev) ==
    /\ Cardinality(ScanEvents(c)) = 1
    /\ \A i \in ScanEvents(c) :
          events[i] = [tag_id |-> Str(tag), name |-> name, device_id |-> dev, context |-> c]

\* the collection holds a record for tag, scanned at time t by dev
HoldsScanned(tag, t, dev) ==
    /\ tag \in DOMAIN data
    /\ LAST_SCANNED \in DOMAIN data[tag] /\ data[tag][LAST_SCANNED] = IsoStr(t)
    /\ DEVICE_ID \in DOMAIN data[tag] /\ data[tag][DEVICE_ID] = dev

\* the last call was the create or update awaited by scan c, and it returned
LastIsResumeOf(c, branch) ==
    /\ last.ctx = c
    /\ last.op = branch
    /\ scans[c].branch = branch
    /\ scans[c].stage = "done"

\* C1 as stated: a scan of a tag id T that is not in the collection, by device D, fires
\* exactly one event {T, no name, D}, and once its create has returned the collection
\* holds a record for T with last_scanned the call time and device_id D.
C1_AsStated ==
    \A c \in 1..Len(scans) :
        scans[c].branch = "create" =>
            /\ FiredOnce(c, scans[c].tag_id, NoneV, scans[c].device_id)
            /\ (LastIsResumeOf(c, "create") /\ last.result = "ok")
                   => HoldsScanned(scans[c].tag_id, scans[c].time, scans[c].device_id)

\* C1 (amended): the same for a non-empty tag id T. (The create gives an empty tag id a
\* generated id, so the record is not stored under "".)
C1_ScanUnknown ==
    \A c \in 1..Len(scans) :
        scans[c].branch = "create" =>
            /\ FiredOnce(c, scans[c].tag_id, NoneV, scans[c].device_id)
            /\ (LastIsResumeOf(c, "create") /\ last.result = "ok" /\ scans[c].tag_id # "")
                   => HoldsScanned(scans[c].tag_id, scans[c].time, scans[c].device_id)

C1_Witness ==
    \E c \in 1..Len(scans) :
        /\ LastIsResumeOf(c, "create") /\ last.result = "ok"
        /\ scans[c].tag_id = "t1" /\ scans[c].device_id = Str("D2")
        /\ "t1" \notin DOMAIN last.pre_data
        /\ HoldsScanned("t1", scans[c].time, Str("D2"))

\* field f is the same in records a and b: present in both with one value, or in neither
SameField(a, b, f) == (f \in DOMAIN a) = (f \in DOMAIN b) /\ Get(a, f) = Get(b, f)

\* C2: a scan of a tag id T that is in the collection, by device D2, fires the event with
\* the record's current name (none if the record has no name) and device_id D2; and once
\* its update has returned, the record has the name and description it had and
\* last_scanned and device_id are the call time and D2.
C2_ScanKnown ==
    /\ \A c \in 1..Len(scans) :
          (scans[c].branch = "update" /\ last.op = "scan" /\ last.ctx = c) =>
              /\ scans[c].tag_id \in DOMAIN data
              /\ FiredOnce(c, scans[c].tag_id,
                           IF CONF_NAME \in DOMAIN data[scans[c].tag_id]
                           THEN data[scans[c].tag_id][CONF_NAME] ELSE NoneV,
                           scans[c].device_id)
    /\ \A c \in 1..Len(scans) :
          (LastIsResumeOf(c, "update") /\ last.result = "ok") =>
              /\ HoldsScanned(scans[c].tag_id, scans[c].time, scans[c].device_id)
              /\ SameField(data[scans[c].tag_id], last.pre_data[scans[c].tag_id], CONF_NAME)
              /\ SameField(data[scans[c].tag_id], last.pre_data[scans[c].tag_id], DESCRIPTION)

C2_Witness ==
    \E c \in 1..Len(scans) :
        /\ LastIsResumeOf(c, "update") /\ last.result = "ok"
        /\ scans[c].tag_id = "t0" /\ scans[c].device_id = Str("D2")
        /\ last.pre_data["t0"] = FrontDoor
        /\ FiredOnce(c, "t0", Str("Front Door"), Str("D2"))
        /\ data["t0"] = [FrontDoor EXCEPT ![LAST_SCANNED] = IsoStr(scans[c].time),
                                          ![DEVICE_ID] = Str("D2")]

\* C3: a scan that passes the set-up check fires its event before anything changes in
\* the collection or in storage, and fires it once whatever becomes of the create or
\* update: when that fails (validation, duplicate id, storage) the scan ends with that
\* error and its one event stays fired.
C3_EventFirst ==
    /\ (last.op = "scan" /\ last.result # "HomeAssistantError") =>
          /\ Len(events) = last.pre_nevents + 1
          /\ events[Len(events)].context = last.ctx
          /\ data = last.pre_data
          /\ persisted = last.pre_stored
    /\ \A c \in 1..Len(scans) :
          scans[c].result # "HomeAssistantError" => Cardinality(ScanEvents(c)) = 1
    /\ \A c \in 1..Len(scans) :
          (LastIsResumeOf(c, "create") \/ LastIsResumeOf(c, "update")) =>
              /\ scans[c].result = last.result
              /\ Len(events) = last.pre_nevents
              /\ \A i \in ScanEvents(c) : i <= last.pre_nevents

\* one scan's create has failed on a duplicate id and another scan has failed on
\* validation or on storage; each has its event
C3_Witness ==
    \E c \in 1..Len(scans) :
        /\ LastIsResumeOf(c, "create")
        /\ last.result = "TagIDExistsError"
        /\ Cardinality(ScanEvents(c)) = 1
        /\ \E b \in 1..Len(scans) : scans[b].result \in {"Invalid", "StorageError"}

\* scans a and b overlapped: each was called before the other's create or update ran
Overlap(a, b) == a <= scans[b].ncalled /\ b <= scans[a].ncalled

\* scans a and b are two finished scans of one id that both took the create branch
\* before either had inserted
Raced(a, b) ==
    /\ a # b
    /\ scans[a].tag_id = scans[b].tag_id
    /\ scans[a].branch = "create" /\ scans[b].branch = "create"
    /\ scans[a].stage = "done" /\ scans[b].stage = "done"
    /\ Overlap(a, b)

\* C4 as stated: two overlapping scans of one id that is not yet in the collection do
\* not both succeed as a create.
C4_AsStated ==
    \A a, b \in 1..Len(scans) :
        Raced(a, b) => ~(scans[a].result = "ok" /\ scans[b].result = "ok")

\* C4 (amended): for a non-empty id, when one of two such scans has created the record
\* and the record is still there when the other's create runs, that create fails, with
\* TagIDExistsError for the id when its input is valid, and changes nothing in memory or
\* in storage. (Two scans of "" both create, each under a generated id; and both create
\* when the record is deleted in between.)
C4_RaceOnCreate ==
    \A a, b \in 1..Len(scans) :
        (/\ Raced(a, b)
         /\ scans[a].tag_id # ""
         /\ scans[a].result = "ok"
         /\ LastIsResumeOf(b, "create")
         /\ scans[b].tag_id \in DOMAIN last.pre_data) =>
            /\ last.result \in {"TagIDExistsError", "Invalid"}
            /\ CREATE_SCHEMA_valid(last.input) =>
                  (last.result = "TagIDExistsError" /\ last.err_id = scans[b].tag_id)
            /\ data = last.pre_data
            /\ persisted = last.pre_stored
            /\ scans[b].result = last.result

C4_Witness ==
    \E a, b \in 1..Len(scans) :
        /\ Raced(a, b)
        /\ scans[a].tag_id = "t1"
        /\ scans[a].result = "ok"
        /\ LastIsResumeOf(b, "create")
        /\ last.result = "TagIDExistsError" /\ last.err_id = "t1"
        /\ "t1" \in DOMAIN data

\* C5 as stated: a create whose valid input carries no id field succeeds and returns a
\* stored record whose id is non-empty and was not a key of the collection before.
C5_AsStated ==
    (/\ last.op = "create"
     /\ CREATE_SCHEMA_valid(last.input)
     /\ TAG_ID \notin DOMAIN last.input) =>
        /\ last.result = "ok"
        /\ TAG_ID \in DOMAIN last.ret
        /\ last.ret[TAG_ID].s # ""
        /\ last.ret[TAG_ID].s \notin DOMAIN last.pre_data
        /\ last.ret[TAG_ID].s \in DOMAIN data
        /\ data[last.ret[TAG_ID].s] = last.ret

\* C6: a create (a command's or a scan's) whose valid input names an id that is a key of
\* the collection fails with TagIDExistsError carrying that id, and the mapping in memory
\* and in storage are as before the call.
C6_DuplicateId ==
    (/\ last.op = "create"
     /\ CREATE_SCHEMA_valid(last.input)
     /\ TAG_ID \in DOMAIN last.input
     /\ last.input[TAG_ID].s \in DOMAIN last.pre_data) =>
        /\ last.result = "TagIDExistsError"
        /\ last.err_id = last.input[TAG_ID].s
        /\ data = last.pre_data
        /\ persisted = last.pre_stored

C6_Witness ==
    /\ last.op = "create"
    /\ last.ctx = 0
    /\ last.input = [tag_id |-> Str("t0")]
    /\ last.pre_data = [x \in {"t0"} |-> FrontDoor]
    /\ last.result = "TagIDExistsError"
    /\ last.err_id = "t0"

\* C7: an update or a delete of an id that is not in the collection fails with the
\* not-found error, and nothing is added, changed, removed or written.
C7_NotFound ==
    (/\ last.op \in {"update", "delete"}
     /\ last.id \notin DOMAIN last.pre_data) =>
        /\ last.result = "ItemNotFound"
        /\ last.err_id = last.id
        /\ data = last.pre_data
        /\ persisted = last.pre_stored

C7_Witness ==
    /\ last.op = "update"
    /\ last.id = "t1"
    /\ last.input = [name |-> Str("Hall")]
    /\ "t1" \notin DOMAIN last.pre_data
    /\ last.pre_data # EmptyDict
    /\ last.result = "ItemNotFound"

\* C8: a scan called before set-up has completed fails with the not-set-up error, fires
\* no event and changes neither the collection nor storage.
C8_NotSetUp ==
    /\ (last.op = "scan" /\ ~initialised) => last.result = "HomeAssistantError"
    /\ (last.op = "scan" /\ last.result = "HomeAssistantError") =>
          /\ ~initialised
          /\ scans[last.ctx].stage = "done"
          /\ scans[last.ctx].result = "HomeAssistantError"
          /\ events = <<>>
          /\ Len(events) = last.pre_nevents
          /\ data = last.pre_data
          /\ persisted = last.pre_stored
    /\ \A c \in 1..Len(scans) :
          scans[c].result = "HomeAssistantError" => ScanEvents(c) = {}

C8_Witness ==
    /\ last.op = "scan"
    /\ last.result = "HomeAssistantError"
    /\ persisted # EmptyDict
    /\ Len(scans) = 1

\* C9: in every reachable state no record has an empty id and every record is stored
\* under the key equal to its id field; an update leaves the id as it was, and a patch
\* that carries the id is rejected.
C9_Ids ==
    /\ \A key \in DOMAIN data :
          /\ key # ""
          /\ TAG_ID \in DOMAIN data[key]
          /\ data[key][TAG_ID] = Str(key)
    /\ (last.op = "update" /\ last.result = "ok") =>
          data[last.id][TAG_ID] = last.pre_data[last.id][TAG_ID]
    /\ (last.op = "update" /\ TAG_ID \in DOMAIN last.input) =>
          /\ last.result \in {"Invalid", "ItemNotFound"}
          /\ data = last.pre_data

C9_Witness ==
    /\ last.op = "update"
    /\ last.id = "t0"
    /\ last.input = [tag_id |-> Str("t1")]
    /\ last.result = "Invalid"
    /\ \E key \in DOMAIN data : key \notin TagIds

\* C10: when a create, an update or a delete (a command's, or the one a scan awaits) has
\* returned without error, the whole mapping in memory is what storage holds.
C10_WriteThrough ==
    (last.op \in {"create", "update", "delete"} /\ last.result = "ok") =>
        persisted = data

C10_Witness ==
    /\ last.op = "create"
    /\ last.ctx # 0
    /\ last.result = "ok"
    /\ Cardinality(DOMAIN data) = 2
    /\ data # last.pre_data
    /\ last.pre_stored = last.pre_data
    /\ persisted = data


\* what makes an input fail a schema of these fields: an unknown field (for an update
\* patch the id is one), a value of the wrong type, an empty name
Rejected(fields, d) ==
    \E f \in DOMAIN d :
        \/ f \notin fields
        \/ f \in {TAG_ID, DESCRIPTION, DEVICE_ID} /\ d[f].k # "str"
        \/ f = CONF_NAME /\ (d[f].k # "str" \/ d[f].s = "")
        \/ f = LAST_SCANNED /\ d[f].k \notin {"str", "datetime"}

\* the last call failed with a validation error and changed nothing
FailedInvalid ==
    /\ last.result = "Invalid"
    /\ data = last.pre_data
    /\ persisted = last.pre_stored
    /\ Len(changes) = last.pre_nchanges

\* C11: a create, or an update of an existing record, whose input fails the schema (an
\* unknown field, a wrong type, an empty name, an id field in an update patch) fails
\* with a validation error and leaves the mapping in memory, the persisted state and
\* the change events fired as they were before the call.
C11_InvalidInput ==
    /\ (last.op = "create" /\ Rejected(CREATE_FIELDS, last.input)) => FailedInvalid
    /\ (last.op = "update" /\ last.id \in DOMAIN last.pre_data
            /\ Rejected(UPDATE_FIELDS, last.input)) => FailedInvalid

C11_Witness ==
    /\ last.op = "update"
    /\ last.ctx = 0
    /\ last.id \in DOMAIN last.pre_data
    /\ TAG_ID \in DOMAIN last.input
    /\ last.result = "Invalid"
    /\ data # EmptyDict


\* the events listener l was called with, in the order of the calls
Received(l) ==
    LET mine == SelectSeq(deliveries, LAMBDA x : x.listener = l)
    IN [i \in 1..Len(mine) |-> mine[i].event]

\* C12: a listener subscribed after a change event has fired is never called with that
\* past event: every event it is called with fired after it subscribed, and it is
\* called with them in the order they fired.
C12_NoPastEvents ==
    \A l \in 1..Len(subs_at) :
        /\ \A i \in 1..Len(Received(l)) : Received(l)[i] > subs_at[l]
        /\ \A i, j \in 1..Len(Received(l)) : i < j => Received(l)[i] < Received(l)[j]

C12_Witness ==
    /\ Len(subs_at) = 2
    /\ subs_at[1] = 0
    /\ subs_at[2] = 1
    /\ Received(1) = <<1, 2>>
    /\ Received(2) = <<2>>


\* the listeners called with event e, in the order of the calls
DeliveredTo(e) ==
    LET its == SelectSeq(deliveries, LAMBDA x : x.event = e)
    IN [i \in 1..Len(its) |-> its[i].listener]

\* C13: each change event is delivered, in subscription order, to exactly the listeners
\* that were subscribed when it fired, whatever is unsubscribed while it is being
\* delivered: once its delivery is over the listeners called with it are those of the
\* list at the time it fired, in that order, and while it is being delivered the
\* listeners called and those still to call make up that list.
C13_StableSnapshot ==
    \A e \in 1..Len(changes) :
        IF e = Len(changes)
        THEN DeliveredTo(e) \o pending = changes[e].to
        ELSE DeliveredTo(e) = changes[e].to

\* listener 2 was unsubscribed while event 1 was being delivered and was still called
\* with it, and was not called with event 2
C13_Witness ==
    /\ Len(changes) = 2
    /\ pending = <<>>
    /\ DeliveredTo(1) = <<1, 2>>
    /\ DeliveredTo(2) = <<1>>
    /\ \E i \in 1..Len(deliveries) :
          /\ deliveries[i] = [listener |-> 2, event |-> 1, live |-> <<1>>]


UpdatedOk == last.op = "update" /\ last.result = "ok"

\* the update kept the fields the patch does not name, and returned the stored record
KeptAndReturned ==
    LET old == last.pre_data[last.id]
        new == data[last.id]
    IN /\ DOMAIN new = (DOMAIN old) \cup (DOMAIN last.input)
       /\ \A f \in (DOMAIN old) \ (DOMAIN last.input) : new[f] = old[f]
       /\ last.ret = new

\* C15 as stated: after a successful update of an existing id with a valid patch every
\* field named in the patch has the patch's value, every other field keeps its value,
\* and the returned record is the one stored.
C15_AsStated ==
    UpdatedOk =>
        /\ KeptAndReturned
        /\ \A f \in DOMAIN last.input : data[last.id][f] = last.input[f]

\* C15 (amended): the same, except that last_scanned, when the patch names it, holds
\* the isoformat text of the patch's time and not the patch's value itself.
C15_UpdateMerge ==
    UpdatedOk =>
        /\ KeptAndReturned
        /\ \A f \in DOMAIN last.input :
              data[last.id][f] = IF f = LAST_SCANNED THEN IsoStr(last.input[f].t)
                                 ELSE last.input[f]

C15_Witness ==
    /\ UpdatedOk
    /\ last.ctx = 0
    /\ last.input = [last_scanned |-> Dt(0), device_id |-> Str("D2")]
    /\ last.pre_data[last.id] = FrontDoor
    /\ data[last.id][CONF_NAME] = Str("Front Door")
    /\ data[last.id][DEVICE_ID] = Str("D2")


\* the serialised form of a time: the text isoformat() gives
Serialised(v) == v.k = "str" /\ v.s = "iso"

\* the last call was a create or an update that returned a record
WroteRecord == last.op \in {"create", "update"} /\ last.result = "ok"

\* the id under which the last call stored its record
WrittenId == IF last.op = "update" THEN last.id ELSE last.ret[TAG_ID].s

\* C16: in every reachable state the last_scanned of every stored record that has one
\* is in the serialised string form, never a datetime, in memory and in storage; a
\* create or update given a last_scanned stores the isoformat text of that time, and
\* an update not given one leaves the stored text as it was.
C16_Normalised ==
    /\ \A id \in DOMAIN data :
          LAST_SCANNED \in DOMAIN data[id] => Serialised(data[id][LAST_SCANNED])
    /\ \A id \in DOMAIN persisted :
          LAST_SCANNED \in DOMAIN persisted[id] => Serialised(persisted[id][LAST_SCANNED])
    /\ (WroteRecord /\ LAST_SCANNED \in DOMAIN last.input)
          => data[WrittenId][LAST_SCANNED] = IsoStr(last.input[LAST_SCANNED].t)
    /\ (WroteRecord /\ last.op = "update" /\ LAST_SCANNED \notin DOMAIN last.input
            /\ LAST_SCANNED \in DOMAIN last.pre_data[last.id])
          => data[last.id][LAST_SCANNED] = last.pre_data[last.id][LAST_SCANNED]

\* an update without last_scanned of a record whose last_scanned was normalised before
C16_Witness ==
    /\ WroteRecord
    /\ last.op = "update"
    /\ LAST_SCANNED \notin DOMAIN last.input
    /\ LAST_SCANNED \in DOMAIN last.pre_data[last.id]
    /\ data[last.id] # last.pre_data[last.id]
    /\ Serialised(data[last.id][LAST_SCANNED])
    /\ \E c \in 1..Len(scans) : scans[c].result = "ok"


\* scan c has just returned without error
ScanReturnedOk(c) == LastIsResumeOf(c, scans[c].branch) /\ last.result = "ok"

\* scan a returned without error before scan b, of the same tag id, was called, and no
\* record of that id was removed
ScannedAgain(a, b) ==
    /\ a < b
    /\ scans[a].tag_id = scans[b].tag_id
    /\ scans[a].result = "ok"
    /\ scans[a].ncalled < b
    /\ scans[b].branch # "none"
    /\ \A i \in 1..Len(changes) :
          ~(changes[i].kind = "removed" /\ changes[i].id = scans[a].tag_id)

\* C17 as stated: after any scan that returns without error the collection holds a
\* record under the scanned tag id with the scan's device_id and call time, for every
\* tag id string, the empty one included, so a second scan of the same tag id takes the
\* update path.
C17_AsStated ==
    /\ \A c \in 1..Len(scans) :
          ScanReturnedOk(c) => HoldsScanned(scans[c].tag_id, scans[c].time, scans[c].device_id)
    /\ \A a, b \in 1..Len(scans) : ScannedAgain(a, b) => scans[b].branch = "update"

\* C17 (amended): the same for every non-empty tag id. (A scan of the empty tag id
\* returns without error too, but its record is stored under a generated id, so the
\* next scan of the empty tag id creates again.)
C17_ScanStores ==
    /\ \A c \in 1..Len(scans) :
          (ScanReturnedOk(c) /\ scans[c].tag_id # "")
              => HoldsScanned(scans[c].tag_id, scans[c].time, scans[c].device_id)
    /\ \A a, b \in 1..Len(scans) :
          (ScannedAgain(a, b) /\ scans[a].tag_id # "") => scans[b].branch = "update"

\* a second scan of a tag id that the first scan created has returned from its update
C17_Witness ==
    /\ Len(scans) = 2
    /\ ScannedAgain(1, 2)
    /\ scans[1].tag_id = "t1"
    /\ scans[1].branch = "create"
    /\ scans[2].branch = "update"
    /\ ScanReturnedOk(2)
    /\ HoldsScanned("t1", scans[2].time, scans[2].device_id)


\* C18 as stated: a scan on an initialised system with device_id None does not fail on
\* its input: its create or update does not end with a validation error.
C18_AsStated ==
    \A c \in 1..Len(scans) :
        (scans[c].device_id = NoneV /\ scans[c].stage = "done" /\ scans[c].branch # "none")
            => scans[c].result # "Invalid"


\* the last step was a step of a scan: its call, or its awaited create or update
ScanStep == last.op = "scan" \/ (last.ctx > 0 /\ last.op \in {"create", "update"})

\* C19: a scan of tag id T removes no record and leaves every record other than the
\* one for T as it was; it adds at most one record; and in the record for T it changes
\* no field other than last_scanned and device_id.
C19_ScanFrame ==
    ScanStep =>
        LET T == last.id
            pre == last.pre_data
        IN /\ DOMAIN pre \subseteq DOMAIN data
           /\ \A id \in (DOMAIN pre) \ {T} : data[id] = pre[id]
           /\ Cardinality((DOMAIN data) \ (DOMAIN pre)) <= 1
           /\ T \in DOMAIN pre =>
                 /\ DOMAIN data[T] \subseteq (DOMAIN pre[T]) \cup {LAST_SCANNED, DEVICE_ID}
                 /\ \A f \in (DOMAIN pre[T]) \ {LAST_SCANNED, DEVICE_ID} :
                       f \in DOMAIN data[T] /\ data[T][f] = pre[T][f]

\* a scan has updated the record of its tag while the collection held another record
C19_Witness ==
    /\ ScanStep
    /\ last.op = "update"
    /\ last.result = "ok"
    /\ last.id = "t0"
    /\ "t1" \in DOMAIN data
    /\ data["t0"] # last.pre_data["t0"]
    /\ data["t0"][CONF_NAME] = Str("Front Door")
    /\ data["t1"] = last.pre_data["t1"]

====
